---- MODULE Spec2Model ----
(***************************************************************************)
(* A model of the monthly aggregation engine of the Actual Budget          *)
(* dashboard: ActualDataProcessor (dashboard/data_processor.py) and the    *)
(* load_data run that drives it (dashboard/pages/home/home_ini_modern.py). *)
(*                                                                         *)
(* Representation.  A DataFrame is the sequence of its rows, each row a    *)
(* record; the DataFrame built from an empty list has no columns, so a     *)
(* column access on it raises KeyError.  A decimal amount (integer cents   *)
(* divided by 100) is represented exactly, as its number of hundredths;    *)
(* a ratio of amounts is a normalised fraction [n, d].  Dates are the      *)
(* "YYYY-MM-DD" strings of the API, parsed to [y, m, d]; period keys are   *)
(* the "YYYY-MM" strings the code builds.  A Python dict is a function     *)
(* from its keys; where the iteration order of a dict matters the keys     *)
(* are kept in a sequence.                                                 *)
(***************************************************************************)
EXTENDS Integers, Sequences, FiniteSets, TLC

VARIABLES
    client,     \* what the API client's get_* calls return, and the clock
    config,     \* utils.settings: account_groups, filters, flags
    cache,      \* the processor's four _*_cache fields
    fetches,    \* per kind, the client.get_* calls made since the caches were
                \* last reset (by __init__ or refresh_data)
    loc,        \* the local variables of load_data
    pc,         \* the position of load_data
    ret         \* what the caller of load_data (or of the last call) receives

vars == <<client, config, cache, fetches, loc, pc, ret>>

\* None, for a nullable string field of a record (category, payee, transfer_id).
None == "None"

-----------------------------------------------------------------------------
(* Generic helpers over sequences.                                         *)

RECURSIVE SumSeq(_)
SumSeq(s) == IF s = <<>> THEN 0 ELSE Head(s) + SumSeq(Tail(s))

Range(s) == {s[i] : i \in 1..Len(s)}

\* The value w, computed after v: a loop passes its accumulated value
\* through this so that each iteration starts from a computed value.
After(v, w) == IF v = v THEN w ELSE w

\* column 'amount' of a frame of transactions, summed (0 for no rows)
AmountSum(rows) == SumSeq([i \in 1..Len(rows) |-> rows[i].amount])

\* str.startswith and str.endswith
StartsWith(s, prefix) ==
    /\ Len(s) >= Len(prefix)
    /\ SubSeq(s, 1, Len(prefix)) = prefix

EndsWith(s, suffix) ==
    /\ Len(s) >= Len(suffix)
    /\ SubSeq(s, Len(s) - Len(suffix) + 1, Len(s)) = suffix

-----------------------------------------------------------------------------
(* Dates: parsing '%Y-%m-%d', formatting '%Y-%m'.                          *)

Digits == <<"0", "1", "2", "3", "4", "5", "6", "7", "8", "9">>

IsDigit(c) == \E k \in 1..10 : Digits[k] = c

DigitVal(c) == (CHOOSE k \in 1..10 : Digits[k] = c) - 1

CharAt(s, i) == SubSeq(s, i, i)

NumAt(s, from, to) ==
    LET RECURSIVE Go(_, _)
        Go(i, acc) == IF i > to THEN acc
                      ELSE Go(i + 1, acc * 10 + DigitVal(CharAt(s, i)))
    IN Go(from, 0)

IsLeap(y) == ((y % 4) = 0 /\ (y % 100) # 0) \/ (y % 400) = 0

DaysIn(y, m) ==
    IF m = 2 THEN (IF IsLeap(y) THEN 29 ELSE 28)
    ELSE IF m \in {4, 6, 9, 11} THEN 30 ELSE 31

\* Whether pd.to_datetime(s, format='%Y-%m-%d') accepts s.
DateParses(s) ==
    /\ Len(s) = 10
    /\ CharAt(s, 5) = "-" /\ CharAt(s, 8) = "-"
    /\ \A i \in {1, 2, 3, 4, 6, 7, 9, 10} : IsDigit(CharAt(s, i))
    /\ NumAt(s, 6, 7) \in 1..12
    /\ NumAt(s, 9, 10) \in 1..DaysIn(NumAt(s, 1, 4), NumAt(s, 6, 7))

\* A datetime is [y, m, d, t], t the time of day; a parsed date is midnight.
ParseDate(s) ==
    [y |-> NumAt(s, 1, 4), m |-> NumAt(s, 6, 7), d |-> NumAt(s, 9, 10), t |-> 0]

DateLE(a, b) ==
    \/ a.y < b.y
    \/ a.y = b.y /\ a.m < b.m
    \/ a.y = b.y /\ a.m = b.m /\ a.d < b.d
    \/ a.y = b.y /\ a.m = b.m /\ a.d = b.d /\ a.t <= b.t

Fmt2(n) == Digits[((n \div 10) % 10) + 1] \o Digits[(n % 10) + 1]

Fmt4(n) == Fmt2(n \div 100) \o Fmt2(n % 100)

\* current.strftime('%Y-%m')
Strftime(date) == Fmt4(date.y) \o "-" \o Fmt2(date.m)

\* date.dt.to_period('M').astype(str)
ToPeriodStr(date) == Fmt4(date.y) \o "-" \o Fmt2(date.m)

-----------------------------------------------------------------------------
(* Record Normalizer: the four cached properties of ActualDataProcessor.   *)

Kinds == {"accounts", "categories", "payees", "transactions"}

\* A cache field holding None.
NoFrame == [set |-> FALSE, typed |-> FALSE, rows |-> <<>>]

\* __init__: the four caches are None.
NewProcessor == [k \in Kinds |-> NoFrame]

\* fillna(0) / 100 of a nullable integer-cents column; <<>> is null.  The
\* result is the decimal amount, held as its number of hundredths.
CentsToDecimal(raw) == IF raw = <<>> THEN 0 ELSE raw[1]

\* client.get_<kind>(): the list the API returns, or DataFetchError.
ClientRaises(kind) == client.fails = kind

\* accounts property: fetch on a None cache, then convert the balance.
AccountsFrame(raw) ==
    [set |-> TRUE, typed |-> TRUE,
     rows |-> [i \in 1..Len(raw) |->
                 [raw[i] EXCEPT !.balance = CentsToDecimal(raw[i].balance)]]]

\* categories and payees properties: the fetched list as a DataFrame.
PlainFrame(raw) == [set |-> TRUE, typed |-> TRUE, rows |-> raw]

\* transactions property, the state of the cache after line 73: the raw
\* frame is stored before the date and amount columns are converted.
RawTransactionsFrame(raw) == [set |-> TRUE, typed |-> raw = <<>>, rows |-> raw]

\* transactions property, lines 74-80: the converted frame.
TypedTransactionsFrame(raw) ==
    [set |-> TRUE, typed |-> TRUE,
     rows |-> [i \in 1..Len(raw) |->
                 [raw[i] EXCEPT !.date = ParseDate(raw[i].date),
                                !.amount = CentsToDecimal(raw[i].amount)]]]

\* a property that asks the client on every read, whatever its cache holds
AccessUncached(c, kind) ==
    IF ClientRaises(kind) THEN [exc |-> "DataFetchError", cache |-> c]
    ELSE IF kind = "accounts"
         THEN [exc |-> "", cache |-> [c EXCEPT ![kind] = AccountsFrame(client.accounts)]]
    ELSE IF kind = "transactions"
         THEN IF \E i \in 1..Len(client.transactions) :
                     ~DateParses(client.transactions[i].date)
              THEN [exc |-> "ValueError",
                    cache |-> [c EXCEPT ![kind] = RawTransactionsFrame(client.transactions)]]
              ELSE [exc |-> "",
                    cache |-> [c EXCEPT ![kind] = TypedTransactionsFrame(client.transactions)]]
    ELSE [exc |-> "", cache |-> [c EXCEPT ![kind] = PlainFrame(client[kind])]]

\* One access of the property `kind` on a processor whose caches are c:
\* the exception it raises ("" for none) and the caches it leaves.
Access(c, kind) ==
    IF c[kind].set THEN [exc |-> "", cache |-> c]
    ELSE IF ClientRaises(kind) THEN [exc |-> "DataFetchError", cache |-> c]
    ELSE IF kind = "accounts"
         THEN [exc |-> "", cache |-> [c EXCEPT ![kind] = AccountsFrame(client.accounts)]]
    ELSE IF kind = "transactions"
         THEN IF \E i \in 1..Len(client.transactions) :
                     ~DateParses(client.transactions[i].date)
              THEN [exc |-> "ValueError",
                    cache |-> [c EXCEPT ![kind] = RawTransactionsFrame(client.transactions)]]
              ELSE [exc |-> "",
                    cache |-> [c EXCEPT ![kind] = TypedTransactionsFrame(client.transactions)]]
    ELSE [exc |-> "", cache |-> [c EXCEPT ![kind] = PlainFrame(client[kind])]]

\* Several properties accessed one after the other; the first exception
\* ends the sequence.
RECURSIVE AccessAll(_, _)
AccessAll(c, kinds) ==
    IF kinds = <<>> THEN [exc |-> "", cache |-> c]
    ELSE LET a == Access(c, Head(kinds))
         IN IF a.exc # "" THEN a ELSE AccessAll(a.cache, Tail(kinds))

\* refresh_data: every cache back to None.
RefreshedCaches == [k \in Kinds |-> NoFrame]

\* no client call made yet
NoFetches == [k \in Kinds |-> 0]

\* The calls of client.get_* counted in f, after the properties `kinds` are
\* accessed one after the other on a processor whose caches are c: a
\* property calls the client exactly when its cache is None, whether the
\* call returns or raises.
RECURSIVE FetchesAfter(_, _, _)
FetchesAfter(f, c, kinds) ==
    IF kinds = <<>> THEN f
    ELSE LET k == Head(kinds)
             a == Access(c, k)
             g == IF c[k].set THEN f ELSE [f EXCEPT ![k] = @ + 1]
         IN IF a.exc # "" THEN g ELSE FetchesAfter(g, a.cache, Tail(kinds))

-----------------------------------------------------------------------------
(* Period Enumerator.                                                      *)

DateMin(rows) ==
    CHOOSE d \in {rows[i].date : i \in 1..Len(rows)} :
        \A j \in 1..Len(rows) : DateLE(d, rows[j].date)

DateMax(rows) ==
    CHOOSE d \in {rows[i].date : i \in 1..Len(rows)} :
        \A j \in 1..Len(rows) : DateLE(rows[j].date, d)

\* get_date_range: (min, max) of the transaction dates, or two readings of
\* the clock when there is no transaction.
DateRange(tx) ==
    IF tx.rows = <<>> THEN <<client.now1, client.now2>>
    ELSE <<DateMin(tx.rows), DateMax(tx.rows)>>

\* lines 101-104: the first day of the next month
NextMonth(cur) ==
    IF cur.m = 12 THEN [cur EXCEPT !.y = cur.y + 1, !.m = 1]
    ELSE [cur EXCEPT !.m = cur.m + 1]

\* the while loop of get_monthly_periods
RECURSIVE PeriodLoop(_, _)
PeriodLoop(current, end_date) ==
    IF DateLE(current, end_date)
    THEN <<Strftime(current)>> \o PeriodLoop(NextMonth(current), end_date)
    ELSE <<>>

\* get_monthly_periods with the loop started at the earliest date instead of
\* the first day of its month
MonthlyPeriodsNoDayReset(tx) ==
    IF ~tx.typed THEN [exc |-> "TypeError", val |-> <<>>]
    ELSE LET range == DateRange(tx)
         IN [exc |-> "", val |-> PeriodLoop(range[1], range[2])]

\* get_monthly_periods on the transactions frame tx: [exc, val].  A frame
\* whose date column was never converted holds strings, and
\* str.replace(day=1) raises TypeError.
MonthlyPeriods(tx) ==
    IF ~tx.typed THEN [exc |-> "TypeError", val |-> <<>>]
    ELSE LET range == DateRange(tx)
         IN [exc |-> "", val |-> PeriodLoop([range[1] EXCEPT !.d = 1], range[2])]

-----------------------------------------------------------------------------
(* Grouping Engine.                                                        *)

\* the account filter of line 121 left out: every row for every entity
RowsWhereUnfiltered(rows, col, id) == rows

\* rows of tx whose column `col` equals id
RowsWhere(rows, col, id) == SelectSeq(rows, LAMBDA r : r[col] = id)

\* rows whose date falls in the month `period`
RowsInPeriod(rows, period) == SelectSeq(rows, LAMBDA r : ToPeriodStr(r.date) = period)

\* The entry built for one entity (lines 118-131): a dict with the keys
\* 'all', 'sum' and one key per period.
EntityEntry(rows, periods) ==
    [k \in {"all", "sum"} \cup Range(periods) |->
        IF k = "all" THEN rows
        ELSE IF k = "sum"
             THEN [i \in 1..Len(periods) |-> AmountSum(RowsInPeriod(rows, periods[i]))]
        ELSE RowsInPeriod(rows, k)]

\* get_transactions_by_account / get_transactions_by_category over the
\* entity frame `ents`, partitioning on column `col`: [exc, val].  With no
\* entity the loop body never runs; otherwise the column access on a frame
\* without columns raises KeyError.
GroupBy(tx, ents, col) ==
    LET periods == MonthlyPeriods(tx)
    IN IF periods.exc # "" THEN [exc |-> periods.exc, val |-> <<>>]
       ELSE IF ents.rows = <<>> THEN [exc |-> "", val |-> <<>>]
       ELSE IF tx.rows = <<>> THEN [exc |-> "KeyError", val |-> <<>>]
       ELSE [exc |-> "",
             val |-> [id \in {ents.rows[i].id : i \in 1..Len(ents.rows)} |->
                        EntityEntry(RowsWhere(tx.rows, col, id), periods.val)]]

TransactionsByAccount(tx, accounts) == GroupBy(tx, accounts, "account")

TransactionsByCategory(tx, categories) == GroupBy(tx, categories, "category")

-----------------------------------------------------------------------------
(* Net Worth Aggregator.                                                   *)

NetWorthRollups == {"all", "assets", "debts"}

\* lines 185-192: the flow of one period over the accounts of a group
GroupFlow(tx_by_acct, accounts, names, period) ==
    LET group_accounts == SelectSeq(accounts.rows, LAMBDA a : a.name \in names)
    IN SumSeq([j \in 1..Len(group_accounts) |->
                 IF group_accounts[j].id \in DOMAIN tx_by_acct
                 THEN AmountSum(tx_by_acct[group_accounts[j].id][period])
                 ELSE 0])

\* lines 186-205, one group in one period; i is the 1-based period index
NetWorthGroupStep(nw, tx_by_acct, accounts, g, period, i) ==
    LET n1 == [nw EXCEPT ![g.name] = Append(@, 0)]
        n2 == [n1 EXCEPT ![g.name][i] = @ + GroupFlow(tx_by_acct, accounts, g.accounts, period)]
        n3 == IF i > 1 THEN [n2 EXCEPT ![g.name][i] = @ + n2[g.name][i - 1]] ELSE n2
        n4 == [n3 EXCEPT !["all"][i] = @ + n3[g.name][i]]
    IN IF StartsWith(g.name, "assets_")
       THEN [n4 EXCEPT !["assets"][i] = @ + n4[g.name][i]]
       ELSE IF StartsWith(g.name, "liabilities_")
            THEN [n4 EXCEPT !["debts"][i] = @ + n4[g.name][i]]
            ELSE n4

RECURSIVE NetWorthGroups(_, _, _, _, _, _)
NetWorthGroups(nw, tx_by_acct, accounts, groups, period, i) ==
    IF groups = <<>> THEN nw
    ELSE NetWorthGroups(NetWorthGroupStep(nw, tx_by_acct, accounts, Head(groups), period, i),
                        tx_by_acct, accounts, Tail(groups), period, i)

\* lines 178-205: the periods from index i on
RECURSIVE NetWorthPeriods(_, _, _, _, _, _)
NetWorthPeriods(nw, tx_by_acct, accounts, groups, periods, i) ==
    IF i > Len(periods) THEN nw
    ELSE LET n0 == [nw EXCEPT !["all"] = Append(@, 0),
                              !["assets"] = Append(@, 0),
                              !["debts"] = Append(@, 0)]
         IN After(nw, NetWorthPeriods(
                NetWorthGroups(n0, tx_by_acct, accounts, groups, periods[i], i),
                tx_by_acct, accounts, groups, periods, i + 1))

\* get_net_worth_by_month(tx_by_acct): [exc, val].  groups is
\* config.account_groups in its dict order.  accounts['name'] on a frame
\* without columns raises KeyError once a period and a group exist.
NetWorthByMonth(tx, accounts, tx_by_acct, groups) ==
    LET periods == MonthlyPeriods(tx)
        keys == {groups[j].name : j \in 1..Len(groups)} \cup NetWorthRollups
    IN IF periods.exc # "" THEN [exc |-> periods.exc, val |-> <<>>]
       ELSE IF periods.val # <<>> /\ groups # <<>> /\ accounts.rows = <<>>
            THEN [exc |-> "KeyError", val |-> <<>>]
       ELSE [exc |-> "",
             val |-> NetWorthPeriods([k \in keys |-> <<>>], tx_by_acct, accounts,
                                     groups, periods.val, 1)]

-----------------------------------------------------------------------------
(* Fractions, for means and ratios of amounts.                             *)

Abs(x) == IF x < 0 THEN -x ELSE x

RECURSIVE Gcd(_, _)
Gcd(a, b) == IF b = 0 THEN a ELSE Gcd(b, a % b)

\* the fraction n/d (d # 0) in lowest terms with a positive denominator
Frac(n, d) ==
    LET g == Gcd(Abs(n), Abs(d))
        sign == IF d < 0 THEN -1 ELSE 1
    IN [n |-> sign * (n \div g), d |-> sign * (d \div g)]

FracOfInt(x) == [n |-> x, d |-> 1]

FracAdd(a, b) == Frac(a.n * b.d + b.n * a.d, a.d * b.d)

FracDiv(a, b) == Frac(a.n * b.d, a.d * b.n)

\* utils.functions.moving_average: the trailing mean over w points, one
\* value per full window.
MovingAverage(series, w) ==
    [i \in 1..(Len(series) - w + 1) |->
        Frac(SumSeq(SubSeq(series, i, i + w - 1)), w)]

-----------------------------------------------------------------------------
(* Cashflow Aggregator.                                                    *)

CashflowMain == {"income", "income_pre_tax", "expenses", "diff"}

\* the moving-average windows of lines 279-293
ShortWindow == 6

LongWindow == 12

\* the trimming with the flag of the current month ignored
TrimPeriodsFirstOnly(periods) ==
    IF config.cashflow_filter_first_mo /\ periods # <<>> THEN Tail(periods) ELSE periods

\* lines 218-221: the two trimming flags
TrimPeriods(periods) ==
    LET p1 == IF config.cashflow_filter_first_mo /\ periods # <<>>
              THEN Tail(periods) ELSE periods
    IN IF config.cashflow_filter_current_mo /\ p1 # <<>>
       THEN SubSeq(p1, 1, Len(p1) - 1) ELSE p1

\* lines 257-260: the rows kept by the transfer and payee filter
FilteredTxns(txns) ==
    SelectSeq(txns, LAMBDA t : t.transfer_id = None /\ ~(t.payee \in config.filter_payees))

\* lines 249-261: the total of one category group in one period
MonthTotal(tx_by_cat, categories, group_id, period) ==
    LET group_categories == SelectSeq(categories.rows, LAMBDA c : c.group_id = group_id)
    IN SumSeq([j \in 1..Len(group_categories) |->
                 IF /\ group_categories[j].id \in DOMAIN tx_by_cat
                    /\ period \in DOMAIN tx_by_cat[group_categories[j].id]
                 THEN AmountSum(FilteredTxns(tx_by_cat[group_categories[j].id][period]))
                 ELSE 0])

\* .any() written for .all()
GroupIsIncomeAny(categories, group_id) ==
    \E j \in 1..Len(categories.rows) :
        categories.rows[j].group_id = group_id /\ categories.rows[j].is_income

\* line 266: group_categories['is_income'].all()
GroupIsIncome(categories, group_id) ==
    \A j \in 1..Len(categories.rows) :
        categories.rows[j].group_id = group_id => categories.rows[j].is_income

\* lines 263-269, one category group in the period appended last
CashflowGroupStep(cf, tx_by_cat, categories, group_id, period) ==
    LET month_total == MonthTotal(tx_by_cat, categories, group_id, period)
        c1 == [cf EXCEPT ![group_id] = Append(@, month_total)]
        target == IF GroupIsIncome(categories, group_id) THEN "income" ELSE "expenses"
    IN [c1 EXCEPT ![target][Len(c1[target])] = @ + month_total]

\* lines 242-269: the keys of the dict that are not one of the main series
RECURSIVE CashflowGroups(_, _, _, _, _)
CashflowGroups(cf, tx_by_cat, categories, todo, period) ==
    IF todo = {} THEN cf
    ELSE LET g == CHOOSE x \in todo : TRUE
         IN CashflowGroups(CashflowGroupStep(cf, tx_by_cat, categories, g, period),
                           tx_by_cat, categories, todo \ {g}, period)

\* lines 236-273: the periods from index i on
RECURSIVE CashflowPeriods(_, _, _, _, _)
CashflowPeriods(cf, tx_by_cat, categories, periods, i) ==
    IF i > Len(periods) THEN cf
    ELSE LET c0 == [cf EXCEPT !["income"] = Append(@, 0),
                              !["income_pre_tax"] = Append(@, 0),
                              !["expenses"] = Append(@, 0)]
             c1 == CashflowGroups(c0, tx_by_cat, categories,
                                  DOMAIN cf \ CashflowMain, periods[i])
             period_diff == c1["income"][Len(c1["income"])]
                            + c1["expenses"][Len(c1["expenses"])]
         IN After(cf, CashflowPeriods([c1 EXCEPT !["diff"] = Append(@, period_diff)],
                                      tx_by_cat, categories, periods, i + 1))

\* the derived series with the 12-period average given to every series
WithMovingAveragesEverywhere(cf) ==
    LET short == {k \in DOMAIN cf : Len(cf[k]) >= 6}
        long == {k \in DOMAIN cf : Len(cf[k]) >= 12}
        new6 == {k \o "_6moMA" : k \in short}
        new12 == {k \o "_12moMA" : k \in long}
    IN [k \in DOMAIN cf \cup new6 \cup new12 |->
          IF k \in new12
          THEN MovingAverage(cf[CHOOSE b \in long : b \o "_12moMA" = k], 12)
          ELSE IF k \in new6
               THEN MovingAverage(cf[CHOOSE b \in short : b \o "_6moMA" = k], 6)
               ELSE cf[k]]

\* lines 275-293: the derived series.  A category-group series gets the
\* 6-period average; a main series the 6-period and the 12-period one.
WithMovingAverages(cf) ==
    LET short == {k \in DOMAIN cf : Len(cf[k]) >= ShortWindow}
        long == {k \in CashflowMain : Len(cf[k]) >= LongWindow}
        key6(k) == k \o "_6moMA"
        key12(k) == k \o "_12moMA"
        new6 == {key6(k) : k \in short}
        new12 == {key12(k) : k \in long}
    IN [k \in DOMAIN cf \cup new6 \cup new12 |->
          IF k \in new12
          THEN MovingAverage(cf[CHOOSE b \in long : key12(b) = k], LongWindow)
          ELSE IF k \in new6
               THEN MovingAverage(cf[CHOOSE b \in short : key6(b) = k], ShortWindow)
               ELSE cf[k]]

\* get_cashflow_by_month(tx_by_cat): [exc, val].  groupby('group_id') on a
\* frame without columns raises KeyError; a null group_id forms no group.
CashflowByMonth(tx, categories, tx_by_cat) ==
    LET periods == MonthlyPeriods(tx)
        group_ids == {categories.rows[j].group_id : j \in 1..Len(categories.rows)} \ {None}
    IN IF periods.exc # "" THEN [exc |-> periods.exc, val |-> <<>>]
       ELSE IF categories.rows = <<>> THEN [exc |-> "KeyError", val |-> <<>>]
       ELSE [exc |-> "",
             val |-> WithMovingAverages(
                         CashflowPeriods([k \in group_ids \cup CashflowMain |-> <<>>],
                                         tx_by_cat, categories,
                                         TrimPeriods(periods.val), 1))]

-----------------------------------------------------------------------------
(* Metrics Calculator.                                                     *)

\* 0.01, the denominator substituted for a zero income, in hundredths
SafeDenominator == 1

\* the guard substituting 1.00 for a zero income
IncomeSafeWholeUnit(income) == IF income.n = 0 THEN FracOfInt(100) ELSE income

\* np.where(income == 0, 0.01, income), one element
IncomeSafe(income) == IF income.n = 0 THEN FracOfInt(SafeDenominator) ELSE income

\* 1 + expenses / income_safe, one element
SavingsRate(expenses, income) == FracAdd(FracOfInt(1), FracDiv(expenses, IncomeSafe(income)))

\* line 321: '6moMA' in [k for k in cashflow_by_mth.keys() if k.endswith('_6moMA')]
HasSixMonthKeys(cf) == "6moMA" \in {k \in DOMAIN cf : EndsWith(k, "_6moMA")}

\* dict.get(key, [])
GetOrEmpty(cf, key) == IF key \in DOMAIN cf THEN cf[key] ELSE <<>>

\* lines 321-326: savings_rate['6moMA']
SavingsRateSixMonth(cf) ==
    LET income_6mo == GetOrEmpty(cf, "income_6moMA")
        expenses_6mo == GetOrEmpty(cf, "expenses_6moMA")
    IN IF HasSixMonthKeys(cf) /\ Len(income_6mo) > 0 /\ Len(expenses_6mo) > 0
       THEN [i \in 1..Len(income_6mo) |-> SavingsRate(expenses_6mo[i], income_6mo[i])]
       ELSE <<>>

\* calculate_metrics(nw_by_mth, cashflow_by_mth): [exc, val]; val is the
\* metrics dict, with the key 'savings_rate' or empty.
CalculateMetrics(tx, cf) ==
    LET periods == MonthlyPeriods(tx)
    IN IF periods.exc # "" THEN [exc |-> periods.exc, val |-> <<>>]
       ELSE IF cf["income"] # <<>> /\ cf["expenses"] # <<>>
            THEN [exc |-> "",
                  val |-> [k \in {"savings_rate"} |->
                     [monthly |-> [i \in 1..Len(cf["income"]) |->
                                     SavingsRate(FracOfInt(cf["expenses"][i]),
                                                 FracOfInt(cf["income"][i]))],
                      ma6 |-> SavingsRateSixMonth(cf),
                      ma12 |-> <<>>]]]
            ELSE [exc |-> "", val |-> <<>>]

-----------------------------------------------------------------------------
(* The inputs of a run: the records the API returns and the settings.      *)

\* the most transactions the API returns in a run
MaxTx == 2

SeqsUpTo(S, n) == UNION {[1..k -> S] : k \in 0..n}

AcctChecking == [id |-> "a1", name |-> "Checking", balance |-> <<120000>>]
AcctVisa == [id |-> "a2", name |-> "Visa", balance |-> <<>>]
AcctJoint == [id |-> "a3", name |-> "Checking", balance |-> <<0>>]

CatSalary == [id |-> "c1", name |-> "Salary", group_id |-> "g1", is_income |-> TRUE]
CatBonus == [id |-> "c2", name |-> "Bonus", group_id |-> "g1", is_income |-> TRUE]
CatRefund == [id |-> "c2", name |-> "Refund", group_id |-> "g1", is_income |-> FALSE]
CatFood == [id |-> "c3", name |-> "Food", group_id |-> "g2", is_income |-> FALSE]

PayeeBroker == [id |-> "p1", name |-> "Broker"]
PayeeShop == [id |-> "p2", name |-> "Shop"]

Tx(account, category, payee, transfer_id, date, amount) ==
    [account |-> account, category |-> category, payee |-> payee,
     transfer_id |-> transfer_id, date |-> date, amount |-> amount]

Group(name, accounts) == [name |-> name, accounts |-> accounts]

BaseAccounts == <<AcctChecking, AcctVisa>>
BaseCategories == <<CatSalary, CatBonus, CatFood>>
BasePayees == <<PayeeBroker, PayeeShop>>
BaseGroups == <<Group("assets_cash", {"Checking"}), Group("liabilities_cc", {"Visa"})>>

Today == [y |-> 2026, m |-> 11, d |-> 2, t |-> 5]

Scenario(txs, accounts, categories, payees, groups, filter, first, current, fails) ==
    [client |-> [accounts |-> accounts, categories |-> categories, payees |-> payees,
                 transactions |-> txs, fails |-> fails, now1 |-> Today, now2 |-> Today],
     config |-> [account_groups |-> groups,
                 acct_group_sort |-> [j \in 1..Len(groups) |-> groups[j].name],
                 filter_payees |-> filter,
                 cashflow_filter_first_mo |-> first,
                 cashflow_filter_current_mo |-> current]]

\* Dates only: same month, neighbouring months, a year boundary, a leap
\* day, gaps, and spans on both sides of 6 and 12 months; every
\* combination of the trimming flags.
PeriodDates ==
    {"2023-11-20", "2023-12-31", "2024-01-01", "2024-02-29", "2024-05-15",
     "2024-06-30", "2024-12-05"}

PeriodScenarios ==
    {Scenario(txs, BaseAccounts, BaseCategories, BasePayees, BaseGroups, {}, first, current, "none") :
        txs \in SeqsUpTo({Tx("a1", "c1", "p1", None, d, <<10000>>) : d \in PeriodDates}, MaxTx),
        first \in BOOLEAN, current \in BOOLEAN}

\* Accounts and account groups: known and unknown account ids, a null
\* amount, groups with either prefix, with neither, sharing an account,
\* leaving an account out, and groups named like a roll-up series.
NetWorthTxs ==
    {Tx("a1", "c1", "p1", None, "2024-01-15", <<10000>>),
     Tx("a1", "c3", "p2", None, "2024-02-10", <<-2000>>),
     Tx("a1", "c3", "p2", None, "2024-04-02", <<>>),
     Tx("a2", "c3", "p2", None, "2024-01-20", <<-4500>>),
     Tx("a2", None, None, "t1", "2024-04-07", <<3000>>),
     Tx("zz", "c3", "p2", None, "2024-01-15", <<-990>>)}

GroupConfigs ==
    {<<>>,
     BaseGroups,
     <<Group("assets_cash", {"Checking"})>>,
     <<Group("assets_cash", {"Checking", "Visa"}), Group("liabilities_cc", {"Visa"})>>,
     <<Group("liabilities_cc", {"Visa"}), Group("other", {"Checking", "Nowhere"})>>,
     <<Group("all", {"Checking"}), Group("liabilities_cc", {"Visa"})>>,
     <<Group("assets", {"Checking"}), Group("debts", {"Visa"})>>}

NetWorthScenarios ==
    {Scenario(txs, BaseAccounts, BaseCategories, BasePayees, groups, {}, FALSE, FALSE, "none") :
        txs \in SeqsUpTo(NetWorthTxs, MaxTx), groups \in GroupConfigs}

\* Two accounts with the same name, both in the group that lists the name.
SameNameTxs ==
    {Tx("a1", "c1", "p1", None, "2024-01-15", <<10000>>),
     Tx("a3", "c1", "p1", None, "2024-02-10", <<700>>),
     Tx("a3", "c3", "p2", None, "2024-01-03", <<-150>>),
     Tx("a2", "c3", "p2", None, "2024-01-20", <<-4500>>)}

SameNameScenarios ==
    {Scenario(txs, <<AcctVisa, AcctChecking, AcctJoint>>, BaseCategories, BasePayees,
              BaseGroups, {}, FALSE, FALSE, "none") :
        txs \in SeqsUpTo(SameNameTxs, MaxTx)}

\* Categories and category groups: an all-income group, a mixed group, an
\* expense group, a transaction without category, months without income.
CashflowTxs ==
    {Tx("a1", "c1", "p1", None, "2024-01-15", <<50000>>),
     Tx("a1", "c1", "p1", None, "2024-03-15", <<48000>>),
     Tx("a1", "c2", "p1", None, "2024-01-31", <<-10000>>),
     Tx("a2", "c3", "p2", None, "2024-01-09", <<-20000>>),
     Tx("a2", "c3", "p2", None, "2024-03-30", <<-7000>>),
     Tx("a2", None, "p2", None, "2024-01-09", <<-300>>),
     Tx("a2", "c9", "p2", None, "2024-03-30", <<-40>>)}

CategoryLists ==
    {BaseCategories, <<CatFood, CatSalary, CatRefund>>, <<CatSalary>>}

CashflowScenarios ==
    {Scenario(txs, BaseAccounts, categories, BasePayees, BaseGroups, {}, FALSE, FALSE, "none") :
        txs \in SeqsUpTo(CashflowTxs, MaxTx), categories \in CategoryLists}

\* Transfers and payees: every combination of payee and transfer
\* reference, against settings that name no payee, a payee by its name,
\* and an entry equal to a payee id.
FilterTxs ==
    {Tx("a1", "c3", payee, transfer_id, "2024-01-15", <<-2000>>) :
        payee \in {"p1", "p2", None}, transfer_id \in {None, "t1"}}
    \cup {Tx("a1", "c1", "p1", None, "2024-01-15", <<50000>>)}

FilterSettings == {{}, {"Broker"}, {"p2"}}

FilterScenarios ==
    {Scenario(txs, BaseAccounts, BaseCategories, BasePayees, BaseGroups, filter, FALSE, FALSE, "none") :
        txs \in SeqsUpTo(FilterTxs, MaxTx), filter \in FilterSettings}

\* Failures: a failing collaborator call, unparseable dates, and record
\* lists that come back empty.
FailureTxs ==
    {Tx("a1", "c1", "p1", None, "2024-01-15", <<10000>>),
     Tx("a1", "c3", "p2", None, "2024-02-30", <<-2000>>),
     Tx("a2", "c3", "p2", None, "2024-13-01", <<-2000>>),
     Tx("a2", "c3", "p2", None, "15/01/2024", <<-2000>>)}

FailurePoints ==
    {"none", "create", "connect", "accounts", "categories", "payees", "transactions"}

FailureScenarios ==
    {Scenario(txs, BaseAccounts, BaseCategories, BasePayees, BaseGroups, {}, FALSE, FALSE, fails) :
        txs \in SeqsUpTo(FailureTxs, MaxTx), fails \in FailurePoints}

EmptyListScenarios ==
    {Scenario(txs, accounts, categories, payees, groups, {}, FALSE, FALSE, "none") :
        txs \in SeqsUpTo({Tx("a1", "c1", "p1", None, "2024-01-15", <<10000>>)}, MaxTx),
        accounts \in {<<>>, BaseAccounts}, categories \in {<<>>, BaseCategories},
        payees \in {<<>>, BasePayees}, groups \in {<<>>, BaseGroups}}

\* Two successive readings of the clock, the second never before the
\* first: the same instant, the first day of a month, and readings on
\* both sides of a month and of a year boundary.
Clocks ==
    {<<Today, Today>>,
     <<[y |-> 2026, m |-> 3, d |-> 1, t |-> 2], [y |-> 2026, m |-> 3, d |-> 1, t |-> 3]>>,
     <<[y |-> 2026, m |-> 1, d |-> 31, t |-> 9], [y |-> 2026, m |-> 2, d |-> 1, t |-> 0]>>,
     <<[y |-> 2025, m |-> 12, d |-> 31, t |-> 9], [y |-> 2026, m |-> 1, d |-> 1, t |-> 0]>>}

\* No transaction at all, under every clock, with and without the other
\* record lists, the account groups and the trimming flags.
EmptyTransactionsScenarios ==
    {LET sc == Scenario(<<>>, accounts, categories, payees, groups, {}, first, current, "none")
     IN [sc EXCEPT !.client.now1 = clock[1], !.client.now2 = clock[2]] :
        accounts \in {<<>>, BaseAccounts}, categories \in {<<>>, BaseCategories},
        payees \in {<<>>, BasePayees}, groups \in {<<>>, BaseGroups},
        first \in BOOLEAN, current \in BOOLEAN, clock \in Clocks}

Scenarios ==
    PeriodScenarios \cup NetWorthScenarios \cup SameNameScenarios \cup CashflowScenarios
    \cup FilterScenarios \cup FailureScenarios \cup EmptyListScenarios
    \cup EmptyTransactionsScenarios

-----------------------------------------------------------------------------
(* load_data: one aggregation run, statement by statement.                 *)

\* the structure returned at lines 43-63
LoadedData ==
    [ini |-> [accounts |-> cache["accounts"].rows,
              categories |-> cache["categories"].rows,
              payees |-> cache["payees"].rows,
              transactions |-> cache["transactions"].rows],
     var |-> [months |-> loc.monthly_periods,
              account_groups |-> config.account_groups,
              acct_group_sort |-> config.acct_group_sort,
              filter_payee_id |->
                  SelectSeq(cache["payees"].rows, LAMBDA p : p.name \in config.filter_payees)],
     nw_by_mth |-> loc.nw_by_mth,
     cashflow_by_mth |-> loc.cashflow_by_mth,
     metrics |-> loc.metrics,
     tx_by_acct |-> loc.tx_by_acct,
     tx_by_cat |-> loc.tx_by_cat]

\* the structure returned at lines 68-86
EmptyData ==
    [ini |-> [accounts |-> <<>>, categories |-> <<>>, payees |-> <<>>,
              transactions |-> <<>>],
     var |-> [months |-> <<>>,
              account_groups |-> config.account_groups,
              acct_group_sort |-> config.acct_group_sort,
              filter_payee_id |-> <<>>],
     nw_by_mth |-> [k \in {"all", "assets", "debts"} |-> <<>>],
     cashflow_by_mth |-> [k \in {"income", "expenses", "diff"} |-> <<>>],
     metrics |-> <<>>,
     tx_by_acct |-> <<>>,
     tx_by_cat |-> <<>>]

\* a handler that logs and re-raises
ExceptHandlerReraise(exc) == [kind |-> "raise", caught |-> exc, value |-> EmptyData]

\* lines 65-86: `except Exception` logs the error and returns EmptyData
ExceptHandler(exc) == [kind |-> "return", caught |-> exc, value |-> EmptyData]

\* line 43: the return of the try block
NormalReturn == [kind |-> "return", caught |-> "", value |-> LoadedData]

NotReturned == [kind |-> "none", caught |-> "", value |-> <<>>]

\* an exception raised at any statement of the try block
Raise(exc) ==
    /\ pc' = "done"
    /\ ret' = ExceptHandler(exc)

\* line 21: create_processor_from_env()
CreateProcessor ==
    /\ pc = "create"
    /\ IF client.fails = "create"
       THEN Raise("ConfigError") /\ UNCHANGED <<cache, fetches, loc>>
       ELSE /\ cache' = NewProcessor
            /\ fetches' = NoFetches
            /\ pc' = "enter"
            /\ UNCHANGED <<loc, ret>>
    /\ UNCHANGED <<client, config>>

\* line 23: with processor.client
EnterClient ==
    /\ pc = "enter"
    /\ IF client.fails = "connect"
       THEN Raise("ConnectionError")
       ELSE pc' = "accounts" /\ UNCHANGED ret
    /\ UNCHANGED <<client, config, cache, fetches, loc>>

\* lines 25-28: one of the four property reads
ReadProperty(kind, next) ==
    /\ pc = kind
    /\ LET a == Access(cache, kind)
       IN /\ cache' = a.cache
          /\ IF a.exc # "" THEN Raise(a.exc) ELSE pc' = next /\ UNCHANGED ret
    /\ fetches' = FetchesAfter(fetches, cache, <<kind>>)
    /\ UNCHANGED <<client, config, loc>>

ReadAccounts == ReadProperty("accounts", "categories")

ReadCategories == ReadProperty("categories", "payees")

ReadPayees == ReadProperty("payees", "transactions")

ReadTransactions == ReadProperty("transactions", "periods")

\* One call of a processor method from load_data: the method starts by
\* reading the properties `kinds`, o is its outcome on the caches they
\* leave; its result is bound to a local.
CallMethod(at, next, kinds, o, local) ==
    /\ pc = at
    /\ LET a == AccessAll(cache, kinds)
       IN /\ cache' = a.cache
          /\ IF a.exc # ""
             THEN Raise(a.exc) /\ UNCHANGED loc
             ELSE IF o.exc # ""
                  THEN Raise(o.exc) /\ UNCHANGED loc
                  ELSE /\ loc' = [loc EXCEPT ![local] = o.val]
                       /\ pc' = next
                       /\ UNCHANGED ret
    /\ fetches' = FetchesAfter(fetches, cache, kinds)
    /\ UNCHANGED <<client, config>>

\* line 34
GetMonthlyPeriods ==
    LET a == AccessAll(cache, <<"transactions">>)
    IN CallMethod("periods", "by_account", <<"transactions">>,
                  MonthlyPeriods(a.cache["transactions"]), "monthly_periods")

\* line 35
GetTransactionsByAccount ==
    LET a == AccessAll(cache, <<"transactions", "accounts">>)
    IN CallMethod("by_account", "by_category", <<"transactions", "accounts">>,
                  TransactionsByAccount(a.cache["transactions"], a.cache["accounts"]),
                  "tx_by_acct")

\* line 36
GetTransactionsByCategory ==
    LET a == AccessAll(cache, <<"transactions", "categories">>)
    IN CallMethod("by_category", "net_worth", <<"transactions", "categories">>,
                  TransactionsByCategory(a.cache["transactions"], a.cache["categories"]),
                  "tx_by_cat")

\* line 38
GetNetWorthByMonth ==
    LET a == AccessAll(cache, <<"transactions", "accounts">>)
    IN CallMethod("net_worth", "cashflow", <<"transactions", "accounts">>,
                  NetWorthByMonth(a.cache["transactions"], a.cache["accounts"],
                                  loc.tx_by_acct, config.account_groups),
                  "nw_by_mth")

\* line 39
GetCashflowByMonth ==
    LET a == AccessAll(cache, <<"transactions", "categories">>)
    IN CallMethod("cashflow", "metrics", <<"transactions", "categories">>,
                  CashflowByMonth(a.cache["transactions"], a.cache["categories"],
                                  loc.tx_by_cat),
                  "cashflow_by_mth")

\* line 41
GetMetrics ==
    LET a == AccessAll(cache, <<"transactions">>)
    IN CallMethod("metrics", "return", <<"transactions">>,
                  CalculateMetrics(a.cache["transactions"], loc.cashflow_by_mth),
                  "metrics")

\* lines 43-63: build and return the result; payees['name'] on a frame
\* without columns raises KeyError
Return ==
    /\ pc = "return"
    /\ pc' = "done"
    /\ ret' = IF cache["payees"].rows = <<>> THEN ExceptHandler("KeyError") ELSE NormalReturn
    /\ UNCHANGED <<client, config, cache, fetches, loc>>

Next ==
    \/ CreateProcessor
    \/ EnterClient
    \/ ReadAccounts
    \/ ReadCategories
    \/ ReadPayees
    \/ ReadTransactions
    \/ GetMonthlyPeriods
    \/ GetTransactionsByAccount
    \/ GetTransactionsByCategory
    \/ GetNetWorthByMonth
    \/ GetCashflowByMonth
    \/ GetMetrics
    \/ Return

NoLocals ==
    [monthly_periods |-> <<>>, tx_by_acct |-> <<>>, tx_by_cat |-> <<>>,
     nw_by_mth |-> <<>>, cashflow_by_mth |-> <<>>, metrics |-> <<>>]

Init ==
    /\ \E sc \in Scenarios : client = sc.client /\ config = sc.config
    /\ cache = [k \in Kinds |-> NoFrame]
    /\ fetches = NoFetches
    /\ loc = NoLocals
    /\ pc = "create"
    /\ ret = NotReturned

Spec == Init /\ [][Next]_vars

-----------------------------------------------------------------------------
(* A processing session: one ActualDataProcessor used directly, through    *)
(* any sequence of property reads, aggregation calls and refresh_data      *)
(* calls, while the data held by the budget service changes.               *)

\* the most client calls per record kind that a session makes between two
\* resets of the caches
MaxFetches == 2

\* What the budget service may hold or do at a moment of the session:
\* records; the same records but a transaction of unparseable date and a
\* failing get_accounts; empty lists everywhere.
SessionClients ==
    {Scenario(<<Tx("a1", "c1", "p1", None, "2024-01-15", <<10000>>)>>, BaseAccounts,
              BaseCategories, BasePayees, BaseGroups, {}, FALSE, FALSE, "none").client,
     Scenario(<<Tx("a2", "c3", "p2", None, "15/01/2024", <<-2000>>)>>, BaseAccounts,
              BaseCategories, BasePayees, BaseGroups, {}, FALSE, FALSE, "accounts").client,
     Scenario(<<>>, <<>>, <<>>, <<>>, BaseGroups, {}, FALSE, FALSE, "none").client}

SessionConfig ==
    Scenario(<<>>, <<>>, <<>>, <<>>, BaseGroups, {}, FALSE, FALSE, "none").config

\* what the caller of the operation op receives
SessionResult(op, exc, value) ==
    [op |-> op, kind |-> IF exc = "" THEN "return" ELSE "raise",
     caught |-> exc, value |-> IF exc = "" THEN value ELSE None]

\* a property read may call the client only while the call budget lasts
MayFetch(kinds) == \A k \in Range(kinds) : cache[k].set \/ fetches[k] < MaxFetches

\* processor.<kind>: a property read
GetProperty(kind) ==
    /\ pc = "session"
    /\ MayFetch(<<kind>>)
    /\ LET a == Access(cache, kind)
       IN /\ cache' = a.cache
          /\ ret' = SessionResult(kind, a.exc, a.cache[kind])
    /\ fetches' = FetchesAfter(fetches, cache, <<kind>>)
    /\ UNCHANGED <<client, config, loc, pc>>

\* A call of an aggregation method: it starts by reading the properties
\* `kinds`; o is its outcome on the caches they leave.
CallAggregation(op, kinds, o) ==
    /\ pc = "session"
    /\ MayFetch(kinds)
    /\ LET a == AccessAll(cache, kinds)
       IN /\ cache' = a.cache
          /\ ret' = IF a.exc # "" THEN SessionResult(op, a.exc, None)
                    ELSE SessionResult(op, o.exc, o.val)
    /\ fetches' = FetchesAfter(fetches, cache, kinds)
    /\ UNCHANGED <<client, config, loc, pc>>

CallGetMonthlyPeriods ==
    LET a == AccessAll(cache, <<"transactions">>)
    IN CallAggregation("get_monthly_periods", <<"transactions">>,
                       MonthlyPeriods(a.cache["transactions"]))

CallGetTransactionsByAccount ==
    LET a == AccessAll(cache, <<"transactions", "accounts">>)
    IN CallAggregation("get_transactions_by_account", <<"transactions", "accounts">>,
                       TransactionsByAccount(a.cache["transactions"], a.cache["accounts"]))

CallGetTransactionsByCategory ==
    LET a == AccessAll(cache, <<"transactions", "categories">>)
    IN CallAggregation("get_transactions_by_category", <<"transactions", "categories">>,
                       TransactionsByCategory(a.cache["transactions"],
                                              a.cache["categories"]))

\* get_net_worth_by_month(): tx_by_acct is None, so the method computes it
NetWorthDefault(tx, accounts, groups) ==
    LET t == TransactionsByAccount(tx, accounts)
    IN IF t.exc # "" THEN t ELSE NetWorthByMonth(tx, accounts, t.val, groups)

\* get_cashflow_by_month(): tx_by_cat is None, so the method computes it
CashflowDefault(tx, categories) ==
    LET t == TransactionsByCategory(tx, categories)
    IN IF t.exc # "" THEN t ELSE CashflowByMonth(tx, categories, t.val)

CallGetNetWorthByMonth ==
    LET a == AccessAll(cache, <<"transactions", "accounts">>)
    IN CallAggregation("get_net_worth_by_month", <<"transactions", "accounts">>,
                       NetWorthDefault(a.cache["transactions"], a.cache["accounts"],
                                       config.account_groups))

CallGetCashflowByMonth ==
    LET a == AccessAll(cache, <<"transactions", "categories">>)
    IN CallAggregation("get_cashflow_by_month", <<"transactions", "categories">>,
                       CashflowDefault(a.cache["transactions"], a.cache["categories"]))

\* processor.refresh_data()
RefreshData ==
    /\ pc = "session"
    /\ cache' = RefreshedCaches
    /\ fetches' = NoFetches
    /\ ret' = SessionResult("refresh_data", "", None)
    /\ UNCHANGED <<client, config, loc, pc>>

\* the environment: the service now holds other data, or starts or stops
\* failing
ServiceChanges ==
    /\ pc = "session"
    /\ \E c \in SessionClients : c # client /\ client' = c
    /\ UNCHANGED <<config, cache, fetches, loc, pc, ret>>

SessionNext ==
    \/ \E kind \in Kinds : GetProperty(kind)
    \/ CallGetMonthlyPeriods
    \/ CallGetTransactionsByAccount
    \/ CallGetTransactionsByCategory
    \/ CallGetNetWorthByMonth
    \/ CallGetCashflowByMonth
    \/ RefreshData
    \/ ServiceChanges

SessionInit ==
    /\ client \in SessionClients
    /\ config = SessionConfig
    /\ cache = NewProcessor
    /\ fetches = NoFetches
    /\ loc = NoLocals
    /\ pc = "session"
    /\ ret = NotReturned

SessionSpec == SessionInit /\ [][SessionNext]_vars

-----------------------------------------------------------------------------
(* Positions of load_data at which a local variable holds its value.       *)

HasPeriods == pc \in {"by_account", "by_category", "net_worth", "cashflow", "metrics", "return"}
HasByAccount == pc \in {"by_category", "net_worth", "cashflow", "metrics", "return"}
HasNetWorth == pc \in {"cashflow", "metrics", "return"}
HasCashflow == pc \in {"metrics", "return"}
HasMetrics == pc = "return"

\* the converted transactions and the other frames of the run
TxRows == cache["transactions"].rows
AccountRows == cache["accounts"].rows
CategoryRows == cache["categories"].rows
PayeeRows == cache["payees"].rows

RECURSIVE SetToSeq(_)
SetToSeq(S) == IF S = {} THEN <<>>
               ELSE LET x == CHOOSE y \in S : TRUE IN <<x>> \o SetToSeq(S \ {x})

\* number of positions of the sequence s that hold r
Count(s, r) == Cardinality({i \in 1..Len(s) : s[i] = r})

\* the number of the month of a date, counted from year 0
MonthOrdinal(date) == date.y * 12 + (date.m - 1)

\* the "YYYY-MM" key of month number n
KeyOfOrdinal(n) == Fmt4(n \div 12) \o "-" \o Fmt2((n % 12) + 1)

\* total of the amounts of the transactions that satisfy Test
TotalWhere(Test(_)) ==
    SumSeq([i \in 1..Len(TxRows) |-> IF Test(TxRows[i]) THEN TxRows[i].amount ELSE 0])

-----------------------------------------------------------------------------
(* C1: for a non-empty transaction set the periods are the "YYYY-MM" keys  *)
(* of every calendar month from the month of the earliest transaction date *)
(* to the month of the latest one, in order, one per month, with no gap    *)
(* and no repeat, December followed by January of the next year.           *)
C1_PeriodsContiguous ==
    (HasPeriods /\ TxRows # <<>>) =>
        LET ords == {MonthOrdinal(TxRows[i].date) : i \in 1..Len(TxRows)}
            first == CHOOSE n \in ords : \A k \in ords : n <= k
            last == CHOOSE n \in ords : \A k \in ords : k <= n
            p == loc.monthly_periods
        IN /\ Len(p) = last - first + 1
           /\ \A i \in 1..Len(p) : p[i] = KeyOfOrdinal(first + i - 1)

\* a run whose periods cross a year boundary and include a month without
\* any transaction
C1_Witness ==
    /\ HasPeriods
    /\ Len(TxRows) = 2
    /\ loc.monthly_periods = <<"2023-12", "2024-01", "2024-02">>

-----------------------------------------------------------------------------
(* C2 and C3, net worth.                                                   *)

GroupNames == {config.account_groups[j].name : j \in 1..Len(config.account_groups)}

\* the ids of the accounts whose name a group lists
GroupAccountIds(g) == {AccountRows[j].id : j \in {k \in 1..Len(AccountRows) :
                                                   AccountRows[k].name \in g.accounts}}

\* the flow of period i over the accounts of group g, from the transactions
PeriodFlow(g, i) ==
    TotalWhere(LAMBDA t : /\ t.account \in GroupAccountIds(g)
                          /\ ToPeriodStr(t.date) = loc.monthly_periods[i])

CumulativeAt(g, i) ==
    loc.nw_by_mth[g.name][i]
        = PeriodFlow(g, i) + (IF i > 1 THEN loc.nw_by_mth[g.name][i - 1] ELSE 0)

(* C2: in the result of get_net_worth_by_month, for every configured       *)
(* account group g and every period index i, series[g][i] is the sum of    *)
(* period i's transaction amounts over the accounts whose name g lists,    *)
(* plus series[g][i-1] when i > 0; other accounts contribute nothing.      *)
C2_GroupSeriesCumulative ==
    HasNetWorth =>
        \A j \in 1..Len(config.account_groups) : \A i \in 1..Len(loc.monthly_periods) :
            CumulativeAt(config.account_groups[j], i)

\* the names the result dict of get_net_worth_by_month uses for its roll-ups
ReservedGroupNames == GroupNames \cap NetWorthRollups

\* sum over the groups with neither prefix of their cumulative value at i
UnclassifiedAt(i) ==
    LET names == SetToSeq({n \in GroupNames :
                             ~StartsWith(n, "assets_") /\ ~StartsWith(n, "liabilities_")})
    IN SumSeq([k \in 1..Len(names) |-> loc.nw_by_mth[names[k]][i]])

(* C3: in the result of get_net_worth_by_month, for every period i,        *)
(* all[i] = assets[i] + debts[i] + the cumulative values at i of the       *)
(* groups with neither prefix; so assets[i] + debts[i] = all[i] when every *)
(* group name starts with 'assets_' or 'liabilities_'.                     *)
C3_RollupIdentity ==
    HasNetWorth =>
        \A i \in 1..Len(loc.monthly_periods) :
            loc.nw_by_mth["all"][i]
                = loc.nw_by_mth["assets"][i] + loc.nw_by_mth["debts"][i] + UnclassifiedAt(i)

\* The two statements above for settings in which no group is named like a
\* roll-up series, with the length of every series.
NetWorthWithoutReservedNames ==
    (HasNetWorth /\ ReservedGroupNames = {}) =>
        /\ \A k \in DOMAIN loc.nw_by_mth : Len(loc.nw_by_mth[k]) = Len(loc.monthly_periods)
        /\ \A j \in 1..Len(config.account_groups) : \A i \in 1..Len(loc.monthly_periods) :
               CumulativeAt(config.account_groups[j], i)
        /\ \A i \in 1..Len(loc.monthly_periods) :
               loc.nw_by_mth["all"][i]
                   = loc.nw_by_mth["assets"][i] + loc.nw_by_mth["debts"][i] + UnclassifiedAt(i)

\* the scenario of the specification: Checking in assets_cash, +100.00 in
\* January and -20.00 in February
NetWorthExample ==
    (/\ HasNetWorth
     /\ client.transactions = <<Tx("a1", "c1", "p1", None, "2024-01-15", <<10000>>),
                                Tx("a1", "c3", "p2", None, "2024-02-10", <<-2000>>)>>
     /\ client.accounts = BaseAccounts
     /\ config.account_groups = <<Group("assets_cash", {"Checking"})>>)
    => /\ loc.monthly_periods = <<"2024-01", "2024-02">>
       /\ loc.nw_by_mth["assets_cash"] = <<10000, 8000>>
       /\ loc.nw_by_mth["all"] = <<10000, 8000>>
       /\ loc.nw_by_mth["assets"] = <<10000, 8000>>
       /\ loc.nw_by_mth["debts"] = <<0, 0>>

-----------------------------------------------------------------------------
(* C4, the grouping by account.                                            *)

KnownAccountIds == {AccountRows[j].id : j \in 1..Len(AccountRows)}

AccountIdSeq == SetToSeq(DOMAIN loc.tx_by_acct)

\* in how many (account, period) buckets, counted with multiplicity, the
\* transaction r lies
BucketCount(r) ==
    SumSeq([a \in 1..Len(AccountIdSeq) |->
        SumSeq([i \in 1..Len(loc.monthly_periods) |->
            Count(loc.tx_by_acct[AccountIdSeq[a]][loc.monthly_periods[i]], r)])])

\* the same for the accounts' 'all' subsets
AllCount(r) ==
    SumSeq([a \in 1..Len(AccountIdSeq) |-> Count(loc.tx_by_acct[AccountIdSeq[a]]["all"], r)])

BucketTotal ==
    SumSeq([a \in 1..Len(AccountIdSeq) |->
        SumSeq([i \in 1..Len(loc.monthly_periods) |->
            AmountSum(loc.tx_by_acct[AccountIdSeq[a]][loc.monthly_periods[i]])])])

SumListTotal ==
    SumSeq([a \in 1..Len(AccountIdSeq) |-> SumSeq(loc.tx_by_acct[AccountIdSeq[a]]["sum"])])

AllTotal ==
    SumSeq([a \in 1..Len(AccountIdSeq) |-> AmountSum(loc.tx_by_acct[AccountIdSeq[a]]["all"])])

(* C4: get_transactions_by_account places every transaction of a known     *)
(* account in exactly one (account, period) bucket and in one 'all'        *)
(* subset, and a transaction of an unknown account in none, without        *)
(* raising; when every account id is known the bucket sums, the 'sum'      *)
(* lists and the 'all' subsets each add up to the total of all amounts.    *)
C4_AccountBucketsPartition ==
    /\ (pc = "by_account" /\ TxRows # <<>>) =>
           TransactionsByAccount(cache["transactions"], cache["accounts"]).exc = ""
    /\ (HasByAccount /\ TxRows # <<>>) =>
           /\ \A r \in Range(TxRows) :
                  LET expected == IF r.account \in KnownAccountIds THEN Count(TxRows, r) ELSE 0
                  IN BucketCount(r) = expected /\ AllCount(r) = expected
           /\ (\A r \in Range(TxRows) : r.account \in KnownAccountIds) =>
                  /\ BucketTotal = AmountSum(TxRows)
                  /\ SumListTotal = AmountSum(TxRows)
                  /\ AllTotal = AmountSum(TxRows)

\* a grouping of two transactions of known accounts, in different buckets
C4_Witness ==
    /\ HasByAccount
    /\ Len(TxRows) = 2
    /\ TxRows[1].account = "a1" /\ TxRows[2].account = "a2"
    /\ TxRows[1].amount # 0 /\ TxRows[2].amount # 0
    /\ BucketTotal = TxRows[1].amount + TxRows[2].amount

\* a grouping in which a transaction of an unknown account was left out
C4_UnknownAccountSkipped ==
    /\ HasByAccount
    /\ \E i \in 1..Len(TxRows) : TxRows[i].account = "zz" /\ BucketCount(TxRows[i]) = 0
    /\ \E i \in 1..Len(TxRows) : TxRows[i].account = "a1" /\ BucketCount(TxRows[i]) = 1

-----------------------------------------------------------------------------
(* C5 to C7, cashflow.                                                     *)

\* the periods that remain after the two trimming flags
RetainedPeriods ==
    SubSeq(loc.monthly_periods,
           IF config.cashflow_filter_first_mo THEN 2 ELSE 1,
           Len(loc.monthly_periods) - (IF config.cashflow_filter_current_mo THEN 1 ELSE 0))

CategoryGroupIds == {CategoryRows[j].group_id : j \in 1..Len(CategoryRows)}

CategoryIdsOf(g) == {CategoryRows[j].id : j \in {k \in 1..Len(CategoryRows) :
                                                   CategoryRows[k].group_id = g}}

AllIncome(g) == \A j \in 1..Len(CategoryRows) :
                    CategoryRows[j].group_id = g => CategoryRows[j].is_income

\* the total of group g in a period over the transactions that are no
\* transfer and whose payee field is not an entry of filter_payees
GroupTotal(g, period) ==
    TotalWhere(LAMBDA t : /\ t.category \in CategoryIdsOf(g)
                          /\ ToPeriodStr(t.date) = period
                          /\ t.transfer_id = None
                          /\ t.payee \notin config.filter_payees)

SumOfGroups(groups, period) ==
    LET gs == SetToSeq(groups)
    IN SumSeq([k \in 1..Len(gs) |-> GroupTotal(gs[k], period)])

(* C5: for every retained period and category group the group's total is   *)
(* the value of the group's own series, and it is part of income exactly   *)
(* when every category of the group has is_income, otherwise part of       *)
(* expenses; diff is income plus expenses.                                 *)
C5_IncomeExpenseClassification ==
    HasCashflow =>
        LET cf == loc.cashflow_by_mth
            n == Len(RetainedPeriods)
        IN /\ \A k \in CategoryGroupIds \cup {"income", "expenses", "diff"} : Len(cf[k]) = n
           /\ \A i \in 1..n :
                /\ \A g \in CategoryGroupIds : cf[g][i] = GroupTotal(g, RetainedPeriods[i])
                /\ cf["income"][i]
                     = SumOfGroups({g \in CategoryGroupIds : AllIncome(g)}, RetainedPeriods[i])
                /\ cf["expenses"][i]
                     = SumOfGroups({g \in CategoryGroupIds : ~AllIncome(g)}, RetainedPeriods[i])
                /\ cf["diff"][i] = cf["income"][i] + cf["expenses"][i]

\* a period in which a group with an income and a non-income category went
\* to expenses while another group went to income
C5_Witness ==
    /\ HasCashflow
    /\ client.categories = <<CatFood, CatSalary, CatRefund>>
    /\ Len(loc.cashflow_by_mth["g1"]) >= 1
    /\ loc.cashflow_by_mth["g1"][1] = 40000
    /\ loc.cashflow_by_mth["expenses"][1] = 40000
    /\ loc.cashflow_by_mth["income"][1] = 0

\* the scenario of the specification: two categories of one income group,
\* 500.00 and -100.00 in a period, give 400.00 of income
C5_IncomeGroupExample ==
    /\ HasCashflow
    /\ client.categories = BaseCategories
    /\ Len(loc.cashflow_by_mth["g1"]) >= 1
    /\ loc.cashflow_by_mth["g1"][1] = 40000
    /\ loc.cashflow_by_mth["income"][1] = 40000
    /\ loc.cashflow_by_mth["expenses"][1] = 0

\* the ids of the payees whose name is listed in filter_payees
ExcludedPayeeIds == {PayeeRows[j].id : j \in {k \in 1..Len(PayeeRows) :
                                                PayeeRows[k].name \in config.filter_payees}}

(* C6: a transaction counts towards its category group's period total      *)
(* exactly when its transfer reference is null and its payee is not a      *)
(* payee whose name is listed in filter_payees.                            *)
C6_ExcludesPayeesByName ==
    HasCashflow =>
        \A i \in 1..Len(RetainedPeriods) : \A g \in CategoryGroupIds :
            loc.cashflow_by_mth[g][i]
                = TotalWhere(LAMBDA t : /\ t.category \in CategoryIdsOf(g)
                                        /\ ToPeriodStr(t.date) = RetainedPeriods[i]
                                        /\ t.transfer_id = None
                                        /\ t.payee \notin ExcludedPayeeIds)

\* What the code does instead: the payee field of the transaction, an id,
\* is looked up in filter_payees itself.
CashflowFiltersOnPayeeField ==
    HasCashflow =>
        \A i \in 1..Len(RetainedPeriods) : \A g \in CategoryGroupIds :
            loc.cashflow_by_mth[g][i] = GroupTotal(g, RetainedPeriods[i])

HasKey(k) == k \in DOMAIN loc.cashflow_by_mth

(* C7 as claimed: every raw series (category groups, income, expenses,     *)
(* diff) with at least 6 points has a '_6moMA' series, every one with at   *)
(* least 12 points also a '_12moMA' series, one with fewer than 6 neither. *)
C7_EverySeriesGetsBothAverages ==
    HasCashflow =>
        \A k \in CategoryGroupIds \cup {"income", "expenses", "diff"} :
            LET n == Len(loc.cashflow_by_mth[k])
            IN /\ n >= 6 => HasKey(k \o "_6moMA")
               /\ n >= 12 => HasKey(k \o "_12moMA")
               /\ n < 6 => ~HasKey(k \o "_6moMA") /\ ~HasKey(k \o "_12moMA")

(* C7 amended: every raw series has a '_6moMA' series exactly when it has  *)
(* at least 6 points; a '_12moMA' series exists exactly for income,        *)
(* income_pre_tax, expenses and diff when they have at least 12 points,    *)
(* and never for a category-group series.                                  *)
C7_AveragesByKindOfSeries ==
    HasCashflow =>
        \A k \in CategoryGroupIds \cup {"income", "income_pre_tax", "expenses", "diff"} :
            LET n == Len(loc.cashflow_by_mth[k])
            IN /\ HasKey(k \o "_6moMA") <=> n >= 6
               /\ HasKey(k \o "_12moMA")
                    <=> (n >= 12 /\ k \in {"income", "income_pre_tax", "expenses", "diff"})

\* a run with at least 12 retained periods: the group series has the short
\* average only, income has both
C7_Witness ==
    /\ HasCashflow
    /\ Len(loc.cashflow_by_mth["g1"]) >= 12
    /\ HasKey("g1_6moMA") /\ ~HasKey("g1_12moMA")
    /\ HasKey("income_6moMA") /\ HasKey("income_12moMA")

-----------------------------------------------------------------------------
(* C8 and C9, the savings rate.                                            *)

HasSavingsRate == "savings_rate" \in DOMAIN loc.metrics

\* the fraction r equals 1 + e / d
IsOnePlusRatio(r, e, d) == r.d # 0 /\ r.n * d = r.d * (d + e)

\* the denominator of the claim: the income, or 0.01 (one hundredth) for a
\* zero income
GuardedIncome(income) == IF income = 0 THEN 1 ELSE income

(* C8: savings_rate['monthly'][i] = 1 + expenses[i] / d[i] for every        *)
(* period, d[i] being income[i], or 0.01 when income[i] is zero; no         *)
(* division by zero; with income and expenses both zero the value is 1.     *)
C8_MonthlySavingsRate ==
    HasMetrics =>
        LET income == loc.cashflow_by_mth["income"]
            expenses == loc.cashflow_by_mth["expenses"]
        IN /\ HasSavingsRate <=> income # <<>>
           /\ HasSavingsRate =>
                LET monthly == loc.metrics["savings_rate"].monthly
                IN /\ Len(monthly) = Len(income)
                   /\ \A i \in 1..Len(income) :
                        /\ GuardedIncome(income[i]) # 0
                        /\ IsOnePlusRatio(monthly[i], expenses[i], GuardedIncome(income[i]))
                        /\ (income[i] = 0 /\ expenses[i] = 0) => monthly[i] = [n |-> 1, d |-> 1]

\* metrics over a period with expenses and no income, a period with neither
\* and a period with income
C8_Witness ==
    /\ HasMetrics /\ HasSavingsRate
    /\ loc.cashflow_by_mth["income"] = <<0, 0, 48000>>
    /\ loc.cashflow_by_mth["expenses"] = <<-20000, 0, 0>>
    /\ loc.metrics["savings_rate"].monthly
         = <<[n |-> -19999, d |-> 1], [n |-> 1, d |-> 1], [n |-> 1, d |-> 1]>>

(* C9: whenever the cashflow structure holds non-empty 'income_6moMA' and   *)
(* 'expenses_6moMA' series, savings_rate['6moMA'] is the non-empty series   *)
(* 1 + expenses_6moMA[i] / income_6moMA[i], 0.01 standing in for a zero     *)
(* denominator, one value per moving-average point.                        *)
C9_SixMonthSavingsRate ==
    (/\ HasMetrics /\ HasSavingsRate
     /\ HasKey("income_6moMA") /\ HasKey("expenses_6moMA")
     /\ loc.cashflow_by_mth["income_6moMA"] # <<>>
     /\ loc.cashflow_by_mth["expenses_6moMA"] # <<>>)
    => LET income_6mo == loc.cashflow_by_mth["income_6moMA"]
           expenses_6mo == loc.cashflow_by_mth["expenses_6moMA"]
           ma6 == loc.metrics["savings_rate"].ma6
       IN /\ Len(ma6) = Len(income_6mo)
          /\ \A i \in 1..Len(ma6) :
               \* r = 1 + (e.n/e.d) / (x.n/x.d), with x = 1/1 for a zero income
               LET x == IF income_6mo[i].n = 0 THEN [n |-> 1, d |-> 1] ELSE income_6mo[i]
                   e == expenses_6mo[i]
               IN ma6[i].n * (e.d * x.n) = ma6[i].d * (e.d * x.n + e.n * x.d)

\* What the code returns instead: no key of the cashflow structure is both
\* equal to '6moMA' and ending in '_6moMA', so the series stays empty.
SixMonthSavingsRateEmpty ==
    (HasMetrics /\ HasSavingsRate) => loc.metrics["savings_rate"].ma6 = <<>>

-----------------------------------------------------------------------------
(* C10, failures of a run.                                                 *)

\* a failure the inputs of the run make certain: a collaborator call that
\* raises, or a transaction date that does not parse
InputsFail ==
    \/ client.fails # "none"
    \/ \E i \in 1..Len(client.transactions) : ~DateParses(client.transactions[i].date)

RunFailed == InputsFail \/ ret.caught # ""

(* C10 as claimed: when a step of the run fails, the caller of load_data    *)
(* receives a failure, never a normally returned structure.                *)
C10_FailurePropagates ==
    (pc = "done" /\ RunFailed) => ret.kind = "raise"

(* C10 amended: when a step of the run fails, the run is aborted and        *)
(* load_data returns normally the fixed empty structure (never a partially  *)
(* populated one); no failure reaches the caller.                          *)
C10_FailureReturnsEmptyData ==
    pc = "done" =>
        /\ ret.kind = "return"
        /\ RunFailed => ret.value = EmptyData
        /\ InputsFail => ret.caught # ""

\* a run aborted by an unparseable date after the four fetches succeeded
C10_Witness ==
    /\ pc = "done"
    /\ client.fails = "none"
    /\ ret.caught = "ValueError"
    /\ cache["accounts"].rows # <<>>
    /\ ret.value.ini.accounts = <<>>

-----------------------------------------------------------------------------
(* Empty transaction set.                                                  *)

\* a run whose API returns no transaction and in which no collaborator fails
EmptyRun == client.transactions = <<>> /\ client.fails = "none"

\* every value of every series of a result dict is zero
AllZero(series) ==
    \A k \in DOMAIN series : \A i \in 1..Len(series[k]) : series[k][i] = 0

\* C11: with an empty transaction set get_monthly_periods returns exactly
\* one period, the month of the current date, and
\* get_transactions_by_account, get_transactions_by_category,
\* get_net_worth_by_month and get_cashflow_by_month all return without an
\* error (so the run never ends before the cashflow result is bound), with
\* series that are empty or hold zeros only.
C11_EmptyTransactionsComplete ==
    EmptyRun =>
        /\ HasPeriods => loc.monthly_periods = <<Strftime(client.now1)>>
        /\ pc = "done" => HasKey("income")
        /\ HasNetWorth => AllZero(loc.nw_by_mth)
        /\ HasCashflow => AllZero(loc.cashflow_by_mth)

\* The part of C11 about the periods: one period, the month of the clock's
\* first reading, also when the clock passes a month boundary between the
\* two readings of get_date_range.
EmptyTransactionsSinglePeriod ==
    (EmptyRun /\ (HasPeriods \/ pc = "done")) =>
        loc.monthly_periods = <<Strftime(client.now1)>>

\* No run over an empty transaction set gets past get_cashflow_by_month:
\* each ends in the except handler with a KeyError.
EmptyTransactionsNeverAggregate ==
    EmptyRun => /\ ~HasCashflow
                /\ pc = "done" => ret = ExceptHandler("KeyError")

\* the clock passed a month boundary between the two readings
EmptyTransactionsClockRollover ==
    /\ EmptyRun /\ HasPeriods
    /\ client.now1.m # client.now2.m

-----------------------------------------------------------------------------
(* The cache of a session.                                                 *)

\* the frame that a returning fetch of `kind` stores now
FrameOf(kind) ==
    IF kind = "accounts" THEN AccountsFrame(client.accounts)
    ELSE IF kind = "transactions" THEN TypedTransactionsFrame(client.transactions)
    ELSE PlainFrame(client[kind])

\* Between two refresh_data calls a filled cache stays as it is, no call
\* reaches the client for it, and a read of the property returns it.
SnapshotKept(k) ==
    /\ (cache[k].set /\ ~RefreshData) =>
            cache'[k] = cache[k] /\ fetches'[k] = fetches[k]
    /\ (cache[k].set /\ GetProperty(k)) =>
            ret' = SessionResult(k, "", cache[k])

\* refresh_data empties the cache, and a read of the property on an empty
\* cache calls the client.
RefetchedAfterRefresh(k) ==
    /\ RefreshData => ~cache'[k].set
    /\ (~cache[k].set /\ GetProperty(k)) => fetches'[k] = fetches[k] + 1

(* C12 as claimed: for each record kind, over any sequence of property     *)
(* reads, aggregation calls and refresh_data calls, the client's fetch is  *)
(* invoked at most once between two consecutive refresh_data calls, every  *)
(* read in between returns the snapshot fetched first, the cache is only   *)
(* discarded by refresh_data, and the first read after a refresh_data      *)
(* fetches again.                                                          *)
C12_FetchedAtMostOncePerRefresh ==
    [][\A k \in Kinds : /\ fetches'[k] <= 1
                        /\ SnapshotKept(k)
                        /\ RefetchedAfterRefresh(k)]_vars

(* C12, amended: for each record kind, once a fetch has returned (an empty *)
(* list included) the client is not called again before the next           *)
(* refresh_data, every read in between returns that snapshot, whatever the *)
(* service holds by then, and only refresh_data discards it; the first     *)
(* read after a refresh_data calls the client again.  A fetch that raises  *)
(* stores nothing, so the next read calls the client again: the calls      *)
(* between two refresh_data calls are any number of raising ones followed  *)
(* by at most one that returns.  (A transactions fetch that returns a date *)
(* that does not parse stores the unconverted list as the snapshot.)       *)
C12_FetchedOnceItReturns ==
    [][\A k \in Kinds :
          /\ SnapshotKept(k)
          /\ RefetchedAfterRefresh(k)
          /\ (~cache[k].set /\ GetProperty(k)) =>
                IF ret'.caught = "DataFetchError" THEN ~cache'[k].set
                ELSE IF ret'.caught = "" THEN cache'[k] = FrameOf(k)
                ELSE cache'[k] = RawTransactionsFrame(client.transactions)]_vars

\* The accounts were fetched once, the service has since gone on to hold
\* other accounts, and a read of the property has returned the snapshot.
C12_Witness ==
    /\ pc = "session"
    /\ fetches["accounts"] = 1
    /\ cache["accounts"].set
    /\ client.fails = "none"
    /\ cache["accounts"] # FrameOf("accounts")
    /\ ret = SessionResult("accounts", "", cache["accounts"])

\* an empty list is a snapshot like any other
SessionEmptyListCached ==
    /\ pc = "session"
    /\ cache["transactions"].set /\ cache["transactions"].rows = <<>>
    /\ client.transactions # <<>>
    /\ ret.kind = "return" /\ ret.op = "get_monthly_periods"
    /\ ret.value = <<Strftime(client.now1)>>

\* a second call of get_accounts between two refresh_data calls
SessionFetchedTwice ==
    pc = "session" /\ fetches["accounts"] = 2

-----------------------------------------------------------------------------
(* The trimming flags and the lengths of the cashflow series.              *)

\* 1 when the first period is dropped, 1 when the last one is
FirstOffset == IF config.cashflow_filter_first_mo THEN 1 ELSE 0
LastOffset == IF config.cashflow_filter_current_mo THEN 1 ELSE 0

\* max(0, n - first - last) for the n enumerated periods
RetainedCount ==
    LET k == Len(loc.monthly_periods) - FirstOffset - LastOffset
    IN IF k > 0 THEN k ELSE 0

\* C13: get_cashflow_by_month drops the first enumerated period when
\* cashflow_filter_first_mo is set and the last one when
\* cashflow_filter_current_mo is set; every raw series that receives values
\* (each category-group series, income, expenses, diff) holds exactly one
\* value per retained period, in chronological order, so all of them have
\* the length max(0, n - first - last); savings_rate['monthly'] has that
\* length too when it is produced.
C13_SeriesFollowRetainedPeriods ==
    HasCashflow =>
        LET cf == loc.cashflow_by_mth
            groups == CategoryGroupIds \ {None}
        IN /\ \A k \in groups \cup {"income", "expenses", "diff"} :
                  Len(cf[k]) = RetainedCount
           /\ \A i \in 1..RetainedCount :
                  LET period == loc.monthly_periods[i + FirstOffset]
                  IN /\ \A g \in groups : cf[g][i] = GroupTotal(g, period)
                     /\ cf["diff"][i] = SumOfGroups(groups, period)
           /\ (HasMetrics /\ HasSavingsRate) =>
                  Len(loc.metrics["savings_rate"].monthly) = RetainedCount

\* a run with both flags set and at least three periods: the first and the
\* last period are dropped, and the monthly savings rate is produced
C13_Witness ==
    /\ HasMetrics /\ HasSavingsRate
    /\ config.cashflow_filter_first_mo /\ config.cashflow_filter_current_mo
    /\ Len(loc.monthly_periods) >= 3
    /\ Len(loc.cashflow_by_mth["g1"]) = Len(loc.monthly_periods) - 2
    /\ Len(loc.metrics["savings_rate"].monthly) = Len(loc.monthly_periods) - 2
    /\ loc.cashflow_by_mth["income"][1] = 0
    /\ GroupTotal("g1", loc.monthly_periods[1]) # 0

\* a single period with both flags set: nothing is retained
TrimmedToNothing ==
    /\ HasMetrics /\ ~HasSavingsRate
    /\ config.cashflow_filter_first_mo /\ config.cashflow_filter_current_mo
    /\ Len(loc.monthly_periods) = 1
    /\ loc.cashflow_by_mth["income"] = <<>>

====
